---------------------------- MODULE Spec2Model ----------------------------
(***************************************************************************)
(* Model of the ice-time availability checker: the batch job               *)
(* (src/auto_icecheck.py) and the dashboard (src/ice_checker.py).          *)
(*                                                                         *)
(* Python str values are TLC strings (\o, Len and SubSeq work on them),    *)
(* datetime.date values are records [year, month, day], and                *)
(* datetime.time values are records [hour, minute].                        *)
(***************************************************************************)
EXTENDS Integers, Sequences, FiniteSets, TLC

VARIABLES
    app,          \* which front end is running: "none", "batch", "dashboard"
    pc,           \* position of the main thread
    directory,    \* rows of the external "facilities" table
    defaults,     \* ExtIDs of the external "defaultFacilities" table
    today,        \* datetime.date.today() / the Start Date widget
    num_days,     \* length of the date window
    day_filter,   \* "Weekdays", "Weekends" or anything else
    start_time,   \* start of the time window (datetime.time)
    end_time,     \* end of the time window (datetime.time)
    label,        \* run_check's label
    facility_ids, \* the resolved facility id list
    target_dates, \* the filtered ISO dates handed to the fan-out
    task,         \* the futures of the pool, by submission index
    yielded,      \* indexes as_completed has yielded to the main thread
    results,      \* batch: list of <<date, url>>; dashboard: list of dict items
    emails,       \* bodies handed to send_email, with the relay's outcome
    rendered      \* what the dashboard has written to the page

vars == <<app, pc, directory, defaults, today, num_days, day_filter,
          start_time, end_time, label, facility_ids, target_dates, task,
          yielded, results, emails, rendered>>

---------------------------------------------------------------------------
(* Bounds of the model.                                                    *)

\* Longest target date list for which the batch job's fan-out is explored:
\* run_check is started on the days whose filtered 16-day window is no
\* longer than this (the Weekend preset on a Monday to Thursday gives 4).
MaxProbes == 4

\* Longest window the dashboard's slider is set to when it runs a fan-out.
MaxDays == 2

\* The date windows start on FirstDays[k] + 0..MaxStartOffset.
MaxStartOffset == 6

---------------------------------------------------------------------------
(* Strings.                                                                *)

Char(s, i) == SubSeq(s, i, i)

Digit(n) == Char("0123456789", n + 1)

\* "%02d" % n, for 0 <= n <= 99
Pad2(n) == Digit(n \div 10) \o Digit(n % 10)

\* "%04d" % n, for 0 <= n <= 9999
Pad4(n) == Pad2(n \div 100) \o Pad2(n % 100)

\* whether t occurs in s as a contiguous substring (Python's "t in s")
Contains(s, t) ==
    \E i \in 1..(Len(s) - Len(t) + 1) : SubSeq(s, i, i + Len(t) - 1) = t

\* whether s ends with t
EndsWith(s, t) ==
    /\ Len(t) <= Len(s)
    /\ SubSeq(s, Len(s) - Len(t) + 1, Len(s)) = t

\* code points of the characters ISO dates are made of
Ord(c) ==
    CASE c = "-" -> 45
      [] c = "0" -> 48 [] c = "1" -> 49 [] c = "2" -> 50 [] c = "3" -> 51
      [] c = "4" -> 52 [] c = "5" -> 53 [] c = "6" -> 54 [] c = "7" -> 55
      [] c = "8" -> 56 [] c = "9" -> 57

\* Python's str < str: by code point, a proper prefix first
RECURSIVE StrLess(_, _)
StrLess(s, t) ==
    IF Len(t) = 0 THEN FALSE
    ELSE IF Len(s) = 0 THEN TRUE
    ELSE IF Char(s, 1) = Char(t, 1)
         THEN StrLess(SubSeq(s, 2, Len(s)), SubSeq(t, 2, Len(t)))
         ELSE Ord(Char(s, 1)) < Ord(Char(t, 1))

---------------------------------------------------------------------------
(* datetime.date                                                           *)

is_leap(y) == y % 4 = 0 /\ (y % 100 # 0 \/ y % 400 = 0)

DAYS_IN_MONTH == <<31, 28, 31, 30, 31, 30, 31, 31, 30, 31, 30, 31>>

RECURSIVE DAYS_BEFORE_MONTH(_)
DAYS_BEFORE_MONTH(m) ==
    IF m = 1 THEN 0 ELSE DAYS_BEFORE_MONTH(m - 1) + DAYS_IN_MONTH[m - 1]

days_before_year(y) ==
    (y - 1) * 365 + (y - 1) \div 4 - (y - 1) \div 100 + (y - 1) \div 400

days_before_month(y, m) ==
    DAYS_BEFORE_MONTH(m) + (IF m > 2 /\ is_leap(y) THEN 1 ELSE 0)

\* date.toordinal()
toordinal(d) == days_before_year(d.year) + days_before_month(d.year, d.month) + d.day

\* date.fromordinal(n)
fromordinal(ordinal) ==
    LET n0   == ordinal - 1
        n400 == n0 \div 146097
        r400 == n0 % 146097
        n100 == r400 \div 36524
        r100 == r400 % 36524
        n4   == r100 \div 1461
        r4   == r100 % 1461
        n1   == r4 \div 365
        n    == r4 % 365
        year == n400 * 400 + 1 + n100 * 100 + n4 * 4 + n1
    IN  IF n1 = 4 \/ n100 = 4
        THEN [year |-> year - 1, month |-> 12, day |-> 31]
        ELSE LET leapyear == n1 = 3 /\ (n4 # 24 \/ n100 = 3)
                 leap(m)  == IF m > 2 /\ leapyear THEN 1 ELSE 0
                 month0   == (n + 50) \div 32
                 prec0    == DAYS_BEFORE_MONTH(month0) + leap(month0)
                 month    == IF prec0 > n THEN month0 - 1 ELSE month0
                 prec     == IF prec0 > n
                             THEN prec0 - (DAYS_IN_MONTH[month]
                                           + (IF month = 2 /\ leapyear THEN 1 ELSE 0))
                             ELSE prec0
             IN  [year |-> year, month |-> month, day |-> n - prec + 1]

\* d + datetime.timedelta(days=i)
AddDays(d, i) == fromordinal(toordinal(d) + i)

\* date.weekday(): Monday is 0, Sunday is 6
weekday(d) == (toordinal(d) + 6) % 7

\* date.isoformat()
isoformat(d) == Pad4(d.year) \o "-" \o Pad2(d.month) \o "-" \o Pad2(d.day)

\* time.strftime("%H:%M")
strftime(t) == Pad2(t.hour) \o ":" \o Pad2(t.minute)

\* str(datetime.time) for a time without seconds
TimeStr(t) == Pad2(t.hour) \o ":" \o Pad2(t.minute) \o ":00"

---------------------------------------------------------------------------
(* Date generation and filtering.                                          *)

\* [start + timedelta(days=i) for i in range(n)]
all_dates(start, n) == [i \in 1..n |-> AddDays(start, i - 1)]

\* IsWeekday with the bound off by one: Saturday passes as a weekday
IsWeekday_OffByOne(d) == weekday(d) <= 5

IsWeekday(d) == weekday(d) < 5

IsWeekend(d) == weekday(d) >= 5

\* the if / elif / else over the day filter
filter_dates(dates, filter) ==
    LET kept == IF filter = "Weekdays" THEN SelectSeq(dates, IsWeekday)
                ELSE IF filter = "Weekends" THEN SelectSeq(dates, IsWeekend)
                ELSE dates
    IN  [i \in 1..Len(kept) |-> isoformat(kept[i])]

---------------------------------------------------------------------------
(* The query builder.                                                      *)

\* sep.join(parts)
RECURSIVE Join(_, _)
Join(parts, sep) ==
    IF parts = <<>> THEN ""
    ELSE IF Len(parts) = 1 THEN parts[1]
    ELSE parts[1] \o sep \o Join(Tail(parts), sep)

\* urllib.parse.quote of one character: letters, digits and "_.-~/" are
\* kept, every other character becomes %XX
quote_char(c) ==
    CASE c = "{"  -> "%7B"
      [] c = "}"  -> "%7D"
      [] c = "\"" -> "%22"
      [] c = ":"  -> "%3A"
      [] c = " "  -> "%20"
      [] c = ","  -> "%2C"
      [] c = "["  -> "%5B"
      [] c = "]"  -> "%5D"
      [] OTHER    -> c

\* urllib.parse.quote(s)
RECURSIVE quote(_)
quote(s) ==
    IF Len(s) = 0 THEN ""
    ELSE IF Len(s) = 1 THEN quote_char(s)
    ELSE LET half == Len(s) \div 2
         IN  quote(SubSeq(s, 1, half)) \o quote(SubSeq(s, half + 1, Len(s)))

\* json.dumps of a str without characters that need escaping
json_str(s) == "\"" \o s \o "\""

\* json.dumps(event_json): keys in insertion order, ", " and ": " separators
json_dumps_event(date_str, start_time_str, end_time_str) ==
    "{" \o json_str("fullDayBooking") \o ": false, "
        \o json_str("eventDates") \o ": [" \o json_str(date_str) \o "], "
        \o json_str("startTime") \o ": " \o json_str(start_time_str \o ":00") \o ", "
        \o json_str("endTime") \o ": " \o json_str(end_time_str \o ":00") \o ", "
        \o json_str("hoursPerDay") \o ": 1, "
        \o json_str("isHoursPerDay") \o ": true}"

BASE_SEARCH_URL == "https://anc.ca.apm.activecommunities.com/ottawa/reservation/search"

\* An ExtID as the directory returns it: a JSON number (kind "int") or a
\* JSON string (kind "str"); text is its decimal spelling.
ExtID(kind, text) == [kind |-> kind, text |-> text]

\* str(f)
str(f) == f.text

\* auto_icecheck.py build_url_for_date: ids go through str()
auto_build_url_for_date(date_str, start_time_str, end_time_str, ids) ==
    [raised |-> FALSE,
     url |-> BASE_SEARCH_URL
             \o "?locale=en-US&attendee=15&resourceType=0&equipmentQty=1"
             \o "&eventDateAndTime="
             \o quote(json_dumps_event(date_str, start_time_str, end_time_str))
             \o "&facilityCenterIds="
             \o Join([i \in 1..Len(ids) |-> str(ids[i])], ",")]

\* ice_checker.py build_url_for_date: ','.join(facility_ids) raises
\* TypeError when an id is not a str
ice_build_url_for_date(date_str, start_time_str, end_time_str, ids) ==
    IF \E i \in 1..Len(ids) : ids[i].kind # "str"
    THEN [raised |-> TRUE, url |-> ""]
    ELSE [raised |-> FALSE,
          url |-> BASE_SEARCH_URL
                  \o "?locale=" \o "en-US"
                  \o "&attendee=" \o "15"
                  \o "&resourceType=" \o "0"
                  \o "&equipmentQty=" \o "1"
                  \o "&eventDateAndTime="
                  \o quote(json_dumps_event(date_str, start_time_str, end_time_str))
                  \o "&facilityCenterIds="
                  \o Join([i \in 1..Len(ids) |-> ids[i].text], ",")]

---------------------------------------------------------------------------
(* The facility directory (an external key-value store).                   *)

Row(desc, ext) == [Description |-> desc, ExtID |-> ext]

\* The contents the "facilities" table may have.  The third description is
\* stored in decomposed form (e followed by U+0301).
Directories ==
    { <<>>,
      << Row("Arena A", ExtID("int", "12")), Row("Arena B", ExtID("int", "34")) >>,
      << Row("Arena A", ExtID("str", "12")), Row("Arena B", ExtID("str", "34")),
         Row("Are+U0301na C", ExtID("str", "56")) >> }

\* unicodedata.normalize("NFC", s)
normalize_NFC(s) == IF s = "Are+U0301na C" THEN "Ar+U00E9na C" ELSE s

\* the descriptions of a directory, in row order (dict insertion order)
Descriptions(dir) == [i \in 1..Len(dir) |-> dir[i].Description]

\* facilities[desc] (the last row of a description wins)
Lookup(dir, desc) ==
    LET rows == {i \in 1..Len(dir) : dir[i].Description = desc}
    IN  dir[CHOOSE i \in rows : \A j \in rows : j <= i].ExtID

HasKey(dir, desc) == \E i \in 1..Len(dir) : dir[i].Description = desc

\* get_default_facility_descriptions():
\* [desc for desc, ext in facilities.items() if ext in ext_ids]
get_default_facility_descriptions(dir, ext_ids) ==
    LET IsDefault(row) == row.ExtID \in ext_ids
    IN  Descriptions(SelectSeq(dir, IsDefault))

\* run_check lines 81-90: the default facilities, normalised, looked up
resolve_batch_facility_ids(dir, ext_ids) ==
    LET selected   == get_default_facility_descriptions(dir, ext_ids)
        normalized == [i \in 1..Len(selected) |-> normalize_NFC(selected[i])]
        Known(desc) == HasKey(dir, desc)
        kept       == SelectSeq(normalized, Known)
    IN  [i \in 1..Len(kept) |-> Lookup(dir, kept[i])]

\* ice_checker.py line 138
resolve_selected_facility_ids(dir, selected) ==
    [i \in 1..Len(selected) |-> Lookup(dir, selected[i])]

---------------------------------------------------------------------------
(* The probes.                                                             *)

\* What the booking site may answer to the batch job's POST.
\*   kind "raise": requests.post raised (connection error or timeout)
\*   kind "http":  a response with a status code and a body; the body is
\*                 "notjson", "nobody" (JSON without body/items) or "items"
\* An item is "nodict" (not a JSON object), "nokey" (no availability key),
\* "null" (availability is not a string) or an availability string.
Items == {"nodict", "nokey", "null", "Available", "available", "Unavailable"}

ItemLists == {<<>>} \cup {<<a>> : a \in Items}
                    \cup {<<"Available", "nodict">>, <<"nodict", "Available">>,
                          <<"Unavailable", "Available">>}

ApiResponses ==
    {[kind |-> "raise", status_code |-> 0, body |-> "", items |-> <<>>]}
    \cup {[kind |-> "http", status_code |-> 500, body |-> "notjson", items |-> <<>>]}
    \cup {[kind |-> "http", status_code |-> 200, body |-> b, items |-> <<>>] :
             b \in {"notjson", "nobody"}}
    \cup {[kind |-> "http", status_code |-> 200, body |-> "items", items |-> l] :
             l \in ItemLists}

\* str.lower()
lower(s) == IF s = "Available" THEN "available"
            ELSE IF s = "Unavailable" THEN "unavailable" ELSE s

\* any(i.get("availability", "").lower() == "available" for i in items):
\* evaluated lazily, item by item; the result is "raise", "True" or "False"
RECURSIVE any_item_available(_)
any_item_available(items) ==
    IF items = <<>> THEN "False"
    ELSE LET i == Head(items)
         IN  IF i \in {"nodict", "null"} THEN "raise"
             ELSE IF lower(IF i = "nokey" THEN "" ELSE i) = "available" THEN "True"
             ELSE any_item_available(Tail(items))

\* whether the try block of the batch probe ran into an exception, or the
\* endpoint refused the request
ApiFault(resp) ==
    \/ resp.kind = "raise"
    \/ resp.status_code # 200
    \/ resp.body # "items"
    \/ any_item_available(resp.items) = "raise"

\* auto_icecheck.py check_availability, lines 49-66: the payload and the
\* reference link are built; the probe is about to post
auto_check_availability_build(t, start_time_str, end_time_str, ids) ==
    LET url_ref == auto_build_url_for_date(t.date, start_time_str, end_time_str, ids)
    IN  IF url_ref.raised
        THEN [t EXCEPT !.state = "raised"]
        ELSE [t EXCEPT !.state = "running", !.url = url_ref.url]

\* auto_icecheck.py check_availability, lines 67-75: the request, the
\* reading of the answer resp, and the return
auto_check_availability_post(t, resp) ==
    LET answered == /\ resp.kind = "http"
                    /\ resp.status_code = 200
                    /\ resp.body = "items"
                    /\ any_item_available(resp.items) # "raise"
    IN  [t EXCEPT !.state  = "returned",
                  !.status = answered /\ any_item_available(resp.items) = "True",
                  !.fault  = ApiFault(resp)]

\* What a headless browser may meet on the dashboard's page load.
\*   "get_raises":   driver.get raised (network failure, page-load timeout)
\*   "no_results":   the empty card is there and says "No results found"
\*   "other_card":   the empty card is there with another text
\*   "listing":      results are listed: no empty card, the wait times out
\*   "error_page":   an error page: no empty card, the wait times out
Pages == {"get_raises", "no_results", "other_card", "listing", "error_page"}

\* whether the transport failed or timed out, or the page is not one the
\* probe expects
PageFault(page) == page \in {"get_raises", "error_page"}

\* ice_checker.py check_availability, lines 90-92: the browser is launched
\* (the launch may fail) and the link is built
ice_check_availability_launch(t, launched, start_time_str, end_time_str, ids) ==
    IF ~launched
    THEN [t EXCEPT !.state = "raised"]
    ELSE LET built == ice_build_url_for_date(t.date, start_time_str, end_time_str, ids)
         IN  IF built.raised
             THEN [t EXCEPT !.state = "raised", !.driver = "open"]
             ELSE [t EXCEPT !.state = "running", !.driver = "open", !.url = built.url]

\* ice_checker.py check_availability, lines 93-104: the page load, the wait
\* for the empty card, driver.quit() and the return
ice_check_availability_load(t, page) ==
    IF page = "get_raises"
    THEN [t EXCEPT !.state = "raised", !.fault = TRUE]
    ELSE [t EXCEPT !.state  = "returned",
                   !.status = IF page = "no_results" THEN FALSE ELSE TRUE,
                   !.fault  = PageFault(page),
                   !.driver = "quit"]

---------------------------------------------------------------------------
(* The worker pool.                                                        *)

\* ThreadPoolExecutor(max_workers=5) of run_check
MAX_WORKERS == 5

\* ThreadPoolExecutor(max_workers=MAX_BROWSERS) of the dashboard
MAX_BROWSERS == 5

\* range(16) of run_check
WINDOW_DAYS == 16

\* max_value of the "Number of Days to Check" slider
SLIDER_MAX == 15

Queued(date_str) ==
    [state |-> "queued", date |-> date_str, status |-> FALSE, url |-> "",
     fault |-> FALSE, driver |-> "none"]

\* executor.submit(check_availability, date, ...) for date in target_dates
submit_all(dates) == [i \in 1..Len(dates) |-> Queued(dates[i])]

Finished(t) == t.state \in {"returned", "raised"}

Running == {i \in DOMAIN task : task[i].state = "running"}

pool_size == IF app = "batch" THEN MAX_WORKERS ELSE MAX_BROWSERS

\* a worker thread may take the next work item: the queue is first in,
\* first out, and the pool never has more than pool_size threads
can_start(i) ==
    /\ i \in DOMAIN task
    /\ task[i].state = "queued"
    /\ \A j \in DOMAIN task : j < i => task[j].state # "queued"
    /\ Cardinality(Running) < pool_size

\* as_completed(futures) hands the main thread a future that has finished
\* and that it has not handed out before
can_yield(i) ==
    /\ i \in DOMAIN task
    /\ Finished(task[i])
    /\ i \notin yielded

\* loop_done as it would be if the loop ended with the first future
loop_done_FirstOnly == yielded # {}

\* the as_completed loop is over: every future was handed out
loop_done == yielded = DOMAIN task

---------------------------------------------------------------------------
(* Inputs.                                                                 *)

Date(y, m, d) == [year |-> y, month |-> m, day |-> d]

Time(h, m) == [hour |-> h, minute |-> m]

\* the two calls of __main__
Presets ==
    { [start_time |-> Time(17, 0), end_time |-> Time(21, 0),
       day_filter |-> "Weekdays", label |-> "Weekday Evening"],
      [start_time |-> Time(8, 0), end_time |-> Time(21, 0),
       day_filter |-> "Weekends", label |-> "Weekend"] }

\* the days a run is started on: a Monday before a turn of the year, a
\* Wednesday that is the last day of a year, a Friday before a turn of month
RunDays == {Date(2025, 12, 29), Date(2025, 12, 31), Date(2026, 2, 27)}

DayFilters == {"Weekdays", "Weekends", "Any Day"}

\* the contents the "defaultFacilities" table may have for a directory
DefaultSets(dir) == {{}, {dir[i].ExtID : i \in 1..Len(dir)}}

\* the facility selections the sidebar leads to: Clear All, Select All and
\* the two Quick Defaults buttons
Selections(dir, ext_ids) ==
    {<<>>, Descriptions(dir), get_default_facility_descriptions(dir, ext_ids)}

---------------------------------------------------------------------------
(* The state after start-up: nothing has run; the directory holds what it  *)
(* holds.                                                                  *)

Blank ==
    /\ app = "none"
    /\ pc = "idle"
    /\ today = Date(2025, 12, 29)
    /\ num_days = 0
    /\ day_filter = ""
    /\ start_time = Time(8, 0)
    /\ end_time = Time(21, 0)
    /\ label = ""
    /\ facility_ids = <<>>
    /\ target_dates = <<>>
    /\ task = <<>>
    /\ yielded = {}
    /\ results = <<>>
    /\ emails = <<>>
    /\ rendered = <<>>

Init ==
    /\ directory \in Directories
    /\ defaults \in DefaultSets(directory)
    /\ Blank

---------------------------------------------------------------------------
(* The batch job: run_check and send_email.                                *)

\* run_check up to the submission of the probes (lines 77-120)
RunCheck(preset, td) ==
    /\ pc = "idle"
    /\ app' = "batch"
    /\ today' = td
    /\ num_days' = WINDOW_DAYS
    /\ day_filter' = preset.day_filter
    /\ start_time' = preset.start_time
    /\ end_time' = preset.end_time
    /\ label' = preset.label
    /\ LET ids   == resolve_batch_facility_ids(directory, defaults)
           dates == filter_dates(all_dates(td, WINDOW_DAYS), preset.day_filter)
       IN  /\ facility_ids' = ids
           /\ IF ids = <<>>
              THEN /\ pc' = "done"
                   /\ target_dates' = <<>>
                   /\ task' = <<>>
              ELSE /\ Len(dates) <= MaxProbes
                   /\ pc' = "collect"
                   /\ target_dates' = dates
                   /\ task' = submit_all(dates)
    /\ UNCHANGED <<directory, defaults, yielded, results, emails, rendered>>

\* a pool thread takes a probe of the batch job and runs it up to the request
AutoProbeStart(i) ==
    /\ app = "batch"
    /\ can_start(i)
    /\ task' = [task EXCEPT ![i] =
                  auto_check_availability_build(task[i], strftime(start_time),
                                                strftime(end_time), facility_ids)]
    /\ UNCHANGED <<app, pc, directory, defaults, today, num_days, day_filter,
                   start_time, end_time, label, facility_ids, target_dates,
                   yielded, results, emails, rendered>>

\* the request is answered (or fails) and the probe returns
AutoProbeFinish(i, resp) ==
    /\ app = "batch"
    /\ i \in DOMAIN task
    /\ task[i].state = "running"
    /\ task' = [task EXCEPT ![i] = auto_check_availability_post(task[i], resp)]
    /\ UNCHANGED <<app, pc, directory, defaults, today, num_days, day_filter,
                   start_time, end_time, label, facility_ids, target_dates,
                   yielded, results, emails, rendered>>

\* collect_available without the test of the status
collect_available_Unfiltered(rs, t) == Append(rs, <<t.date, t.url>>)

\* lines 124-125: if status: results.append((date_str, url))
collect_available(rs, t) ==
    IF t.status THEN Append(rs, <<t.date, t.url>>) ELSE rs

\* one round of "for f in as_completed(futures)" (lines 121-125)
AutoCollect(i) ==
    /\ app = "batch"
    /\ pc = "collect"
    /\ can_yield(i)
    /\ yielded' = yielded \cup {i}
    /\ IF task[i].state = "raised"
       THEN /\ pc' = "unwind"
            /\ UNCHANGED results
       ELSE /\ pc' = pc
            /\ results' = collect_available(results, task[i])
    /\ UNCHANGED <<app, directory, defaults, today, num_days, day_filter,
                   start_time, end_time, label, facility_ids, target_dates,
                   task, emails, rendered>>

\* email_lines that stops one result short
RECURSIVE email_lines_DropLast(_)
email_lines_DropLast(rs) ==
    IF Len(rs) <= 1 THEN ""
    ELSE Head(rs)[1] \o ": " \o Head(rs)[2] \o "\n" \o email_lines_DropLast(Tail(rs))

\* the body send_email builds (lines 147-149)
RECURSIVE email_lines(_)
email_lines(rs) ==
    IF rs = <<>> THEN ""
    ELSE Head(rs)[1] \o ": " \o Head(rs)[2] \o "\n" \o email_lines(Tail(rs))

email_body(rs, lbl) == "Ice available for " \o lbl \o ":\n\n" \o email_lines(rs)

\* the loop is over, the pool is shut down, and run_check reports
\* (lines 127-140); delivered is whether the mail relay took the message
AutoReport(delivered) ==
    /\ app = "batch"
    /\ pc = "collect"
    /\ loop_done
    /\ pc' = "done"
    /\ emails' = IF results # <<>>
                 THEN Append(emails, [body |-> email_body(results, label),
                                      subject |-> "Ice Available - " \o label,
                                      delivered |-> delivered])
                 ELSE emails
    /\ UNCHANGED <<app, directory, defaults, today, num_days, day_filter,
                   start_time, end_time, label, facility_ids, target_dates,
                   task, yielded, results, rendered>>

---------------------------------------------------------------------------
(* The dashboard: one run of the script with "Check Ice Times" pressed.    *)

Out(call, text) == [call |-> call, text |-> text]

\* ice_validate without the test of the facility list
ice_validate_NoFacilityTest(ids, dates) ==
    IF dates = <<>> THEN "no_dates" ELSE "run"

\* the if / elif / else of lines 192-196
ice_validate(ids, dates) ==
    IF ids = <<>> THEN "no_facility"
    ELSE IF dates = <<>> THEN "no_dates"
    ELSE "run"

\* lines 126-212: the widgets are read, the dates generated, the inputs
\* validated and the probes submitted
CheckButton(start_date, nd, selected, filter, t0, t1) ==
    /\ pc = "idle"
    /\ app' = "dashboard"
    /\ today' = start_date
    /\ num_days' = nd
    /\ day_filter' = filter
    /\ start_time' = t0
    /\ end_time' = t1
    /\ label' = ""
    /\ LET ids   == resolve_selected_facility_ids(directory, selected)
           dates == filter_dates(all_dates(start_date, nd), filter)
       IN  /\ facility_ids' = ids
           /\ target_dates' = dates
           /\ IF ice_validate(ids, dates) = "no_facility"
              THEN /\ pc' = "done"
                   /\ task' = <<>>
                   /\ rendered' = << Out("markdown", "\n\n"),
                                     Out("warning", "Please select at least one facility.") >>
              ELSE IF ice_validate(ids, dates) = "no_dates"
              THEN /\ pc' = "done"
                   /\ task' = <<>>
                   /\ rendered' = << Out("markdown", "\n\n"),
                                     Out("markdown", "No ice times were found for the selected dates.") >>
              ELSE /\ pc' = "collect"
                   /\ task' = submit_all(dates)
                   /\ rendered' = << Out("markdown", "\n\n") >>
    /\ UNCHANGED <<directory, defaults, yielded, results, emails>>

\* a pool thread takes a probe of the dashboard, launches its browser and
\* builds the link
IceProbeStart(i, launched) ==
    /\ app = "dashboard"
    /\ can_start(i)
    /\ task' = [task EXCEPT ![i] =
                  ice_check_availability_launch(task[i], launched, strftime(start_time),
                                                strftime(end_time), facility_ids)]
    /\ UNCHANGED <<app, pc, directory, defaults, today, num_days, day_filter,
                   start_time, end_time, label, facility_ids, target_dates,
                   yielded, results, emails, rendered>>

\* the page is loaded (or the load fails) and the probe returns or raises
IceProbeFinish(i, page) ==
    /\ app = "dashboard"
    /\ i \in DOMAIN task
    /\ task[i].state = "running"
    /\ task' = [task EXCEPT ![i] = ice_check_availability_load(task[i], page)]
    /\ UNCHANGED <<app, pc, directory, defaults, today, num_days, day_filter,
                   start_time, end_time, label, facility_ids, target_dates,
                   yielded, results, emails, rendered>>

\* results[date_str] = (status, runtime, url); the runtime is left out
dict_set(dict, key, value) ==
    [k \in DOMAIN dict \cup {key} |-> IF k = key THEN value ELSE dict[k]]

\* one round of "for future in as_completed(future_to_date)" (lines
\* 210-212): future.result() returns the probe's tuple or raises what the
\* probe raised
IceCollect(i) ==
    /\ app = "dashboard"
    /\ pc = "collect"
    /\ can_yield(i)
    /\ yielded' = yielded \cup {i}
    /\ IF task[i].state = "raised"
       THEN /\ pc' = "unwind"
            /\ UNCHANGED results
       ELSE /\ pc' = pc
            /\ results' = dict_set(results, task[i].date,
                                   [status |-> task[i].status, url |-> task[i].url])
    /\ UNCHANGED <<app, directory, defaults, today, num_days, day_filter,
                   start_time, end_time, label, facility_ids, target_dates,
                   task, emails, rendered>>

\* an exception leaves the with block: the pool's __exit__ waits for every
\* probe, then the exception ends the run of the script
Unwind ==
    /\ pc = "unwind"
    /\ \A i \in DOMAIN task : Finished(task[i])
    /\ pc' = "aborted"
    /\ UNCHANGED <<app, directory, defaults, today, num_days, day_filter,
                   start_time, end_time, label, facility_ids, target_dates,
                   task, yielded, results, emails, rendered>>

\* sorted(keys): ascending by Python's str order
RECURSIVE sorted(_)
sorted(keys) ==
    IF keys = {} THEN <<>>
    ELSE LET least == CHOOSE k \in keys : \A o \in keys : ~StrLess(o, k)
         IN  <<least>> \o sorted(keys \ {least})

available_line(date_str, url) ==
    "**" \o date_str \o "**: U+2705 Last Minute Ottawa ice times are available. ([View here]("
         \o url \o "))"

\* the loop of lines 221-227: one line per available date
RECURSIVE available_lines(_, _)
available_lines(dict, keys) ==
    IF keys = <<>> THEN <<>>
    ELSE (IF dict[Head(keys)].status
          THEN << Out("markdown", available_line(Head(keys), dict[Head(keys)].url)) >>
          ELSE <<>>)
         \o available_lines(dict, Tail(keys))

\* summary_lines with the first test reduced to any_notavailable
summary_lines_NoAvailableTest(dict) ==
    LET any_notavailable == \E k \in DOMAIN dict : ~dict[k].status
    IN  IF any_notavailable
        THEN << Out("markdown", "No ice times were found for the selected dates.") >>
        ELSE <<>>

\* lines 219-232: the flags and the summary line
summary_lines(dict) ==
    LET any_available    == \E k \in DOMAIN dict : dict[k].status
        any_notavailable == \E k \in DOMAIN dict : ~dict[k].status
    IN  IF any_notavailable /\ ~any_available
        THEN << Out("markdown", "No ice times were found for the selected dates.") >>
        ELSE IF any_notavailable
        THEN << Out("markdown", "No availability on other dates/times.") >>
        ELSE <<>>

\* the loop is over, the pool is shut down, and the page is written
\* (lines 214-232)
IceRender ==
    /\ app = "dashboard"
    /\ pc = "collect"
    /\ loop_done
    /\ pc' = "done"
    /\ rendered' = rendered
          \o << Out("subheader", "City of Ottawa Last Minute Ice"),
                Out("markdown", "---"),
                Out("subheader", target_dates[1] \o " to " \o target_dates[Len(target_dates)]),
                Out("subheader", "Earliest start " \o TimeStr(start_time)
                                 \o " latest finish " \o TimeStr(end_time)) >>
          \o available_lines(results, sorted(DOMAIN results))
          \o summary_lines(results)
    /\ UNCHANGED <<app, directory, defaults, today, num_days, day_filter,
                   start_time, end_time, label, facility_ids, target_dates,
                   task, yielded, results, emails>>

---------------------------------------------------------------------------
(* The specification of the two front ends.                                *)

TimeWindows == {<<Time(8, 0), Time(21, 0)>>, <<Time(17, 0), Time(21, 0)>>}

Next ==
    \/ \E preset \in Presets, td \in RunDays : RunCheck(preset, td)
    \/ \E i \in 1..(MaxProbes + 1) : AutoProbeStart(i)
    \/ \E i \in 1..(MaxProbes + 1), resp \in ApiResponses : AutoProbeFinish(i, resp)
    \/ \E i \in 1..(MaxProbes + 1) : AutoCollect(i)
    \/ \E delivered \in BOOLEAN : AutoReport(delivered)
    \/ \E start_date \in RunDays, nd \in 1..MaxDays,
          selected \in Selections(directory, defaults),
          filter \in DayFilters, w \in TimeWindows :
            CheckButton(start_date, nd, selected, filter, w[1], w[2])
    \/ \E i \in 1..(MaxProbes + 1), launched \in BOOLEAN : IceProbeStart(i, launched)
    \/ \E i \in 1..(MaxProbes + 1), page \in Pages : IceProbeFinish(i, page)
    \/ \E i \in 1..(MaxProbes + 1) : IceCollect(i)
    \/ Unwind
    \/ IceRender

Spec == Init /\ [][Next]_vars

---------------------------------------------------------------------------
(* The specification of the date generation alone: the inputs are drawn in *)
(* the initial state and the two front ends' generators are applied.       *)

\* two Saturdays: one before a turn of the year, one before a 29 February
FirstDays == {Date(2025, 12, 27), Date(2028, 2, 26)}

StartDays == {AddDays(f, k) : f \in FirstDays, k \in 0..MaxStartOffset}

InitDates ==
    /\ directory = <<>>
    /\ defaults = {}
    /\ app \in {"batch", "dashboard"}
    /\ pc = "input"
    /\ today \in StartDays
    /\ num_days \in IF app = "batch" THEN {WINDOW_DAYS} ELSE 1..SLIDER_MAX
    /\ day_filter \in DayFilters \cup {"weekdays"}
    /\ start_time = Time(8, 0)
    /\ end_time = Time(21, 0)
    /\ label = ""
    /\ facility_ids = <<>>
    /\ target_dates = <<>>
    /\ task = <<>>
    /\ yielded = {}
    /\ results = <<>>
    /\ emails = <<>>
    /\ rendered = <<>>

\* run_check lines 97-104
AutoTargetDates ==
    /\ app = "batch"
    /\ pc = "input"
    /\ pc' = "dates"
    /\ target_dates' = filter_dates(all_dates(today, WINDOW_DAYS), day_filter)
    /\ UNCHANGED <<app, directory, defaults, today, num_days, day_filter,
                   start_time, end_time, label, facility_ids, task, yielded,
                   results, emails, rendered>>

\* ice_checker.py lines 181-187
IceTargetDates ==
    /\ app = "dashboard"
    /\ pc = "input"
    /\ pc' = "dates"
    /\ target_dates' = filter_dates(all_dates(today, num_days), day_filter)
    /\ UNCHANGED <<app, directory, defaults, today, num_days, day_filter,
                   start_time, end_time, label, facility_ids, task, yielded,
                   results, emails, rendered>>

NextDates == AutoTargetDates \/ IceTargetDates

SpecDates == InitDates /\ [][NextDates]_vars

---------------------------------------------------------------------------
(* Properties.                                                             *)

\* the link the running front end builds for a date
LinkFor(date_str) ==
    IF app = "batch"
    THEN auto_build_url_for_date(date_str, strftime(start_time), strftime(end_time),
                                 facility_ids).url
    ELSE ice_build_url_for_date(date_str, strftime(start_time), strftime(end_time),
                                facility_ids).url

\* the probes that returned available=true
Available == {i \in DOMAIN task : task[i].state = "returned" /\ task[i].status}

\* whether line is one of the "\n"-ended lines of text
HasLine(text, line) ==
    \E i \in 2..(Len(text) - Len(line) + 1) :
        /\ Char(text, i - 1) = "\n"
        /\ SubSeq(text, i, i + Len(line) - 1) = line

\* a line of the page that announces an available date
IsAvailableLine(o) ==
    o.call = "markdown" /\ Contains(o.text, "ice times are available")

\* C1: every probe whose transport failed, that timed out or that met an
\* unexpected response returns available=false, and no probe raises to the
\* fan-out.
C1_ProbesFailClosed ==
    \A i \in DOMAIN task :
        (Finished(task[i]) /\ task[i].fault) =>
            (task[i].state = "returned" /\ ~task[i].status)

\* The batch probe alone does fail closed and does not raise.
BatchProbesFailClosed ==
    app = "batch" =>
        \A i \in DOMAIN task :
            /\ task[i].state # "raised"
            /\ (Finished(task[i]) /\ task[i].fault) => ~task[i].status

\* C2: when a run with a fan-out is over, the main thread has obtained one
\* probe result for every input date.
C2_OneResultPerDate ==
    (pc \in {"done", "aborted"} /\ task # <<>>) =>
        /\ Len(task) = Len(target_dates)
        /\ \A i \in DOMAIN task :
              /\ i \in yielded
              /\ task[i].state = "returned"
              /\ task[i].date = target_dates[i]

\* C3: the batch job calls send_email if and only if some probe returned
\* available=true, at most once and not before the run is over, and the
\* body has a line "date: link" for every available date.
C3_EmailIffAvailable ==
    /\ pc # "done" => emails = <<>>
    /\ (app = "batch" /\ pc = "done") =>
          /\ (emails # <<>>) <=> (Available # {})
          /\ Len(emails) <= 1
          /\ emails # <<>> =>
                \A i \in Available :
                    HasLine(emails[1].body,
                            task[i].date \o ": " \o LinkFor(task[i].date) \o "\n")

C3_Witness ==
    /\ app = "batch"
    /\ pc = "done"
    /\ Len(emails) = 1
    /\ Cardinality(Available) >= 2
    /\ \E i \in DOMAIN task : ~task[i].status

\* C4: after the fan-out the report holds exactly the dates whose probe
\* returned available=true, each with the link built for that date, and
\* nothing for the other dates.
C4_ReportExact ==
    (pc = "done" /\ task # <<>>) =>
        IF app = "batch"
        THEN /\ Len(results) = Cardinality(Available)
             /\ \A i \in Available :
                   \E k \in DOMAIN results :
                       results[k] = <<task[i].date, LinkFor(task[i].date)>>
             /\ \A k \in DOMAIN results :
                   \E i \in Available : results[k][1] = task[i].date
        ELSE LET lines == SelectSeq(rendered, IsAvailableLine)
             IN  /\ Len(lines) = Cardinality(Available)
                 /\ \A i \in Available :
                       \E k \in DOMAIN lines :
                           /\ Contains(lines[k].text, "**" \o task[i].date \o "**")
                           /\ Contains(lines[k].text,
                                       "(" \o LinkFor(task[i].date) \o ")")
                 /\ \A i \in DOMAIN task \ Available :
                       \A k \in DOMAIN rendered :
                           ~Contains(rendered[k].text, "**" \o task[i].date \o "**")

C4_Witness ==
    /\ app = "batch"
    /\ pc = "done"
    /\ Len(task) = 4
    /\ Len(results) = 2
    /\ task[1].status /\ ~task[2].status /\ task[3].status /\ ~task[4].status

\* C5: no probe of the dashboard ends with its browser launched and not
\* quit.
C5_DriversQuit ==
    \A i \in DOMAIN task : Finished(task[i]) => task[i].driver # "open"

\* C7: the run decides on the email, or writes the result lines, only when
\* every probe it dispatched has finished.
C7_ReportAfterFanOut ==
    (pc = "done" \/ emails # <<>> \/ Len(rendered) > 1) =>
        \A i \in DOMAIN task : Finished(task[i])

C7_Witness ==
    /\ app = "dashboard"
    /\ pc = "done"
    /\ Len(task) >= 2
    /\ \A i \in DOMAIN task : task[i].status
    /\ Len(rendered) = 5 + Len(task)

\* C8: a run whose facility id list is empty submits no probe and sends no
\* email, and the dashboard shows its warning; a dashboard run with
\* facilities but an empty date list shows a message and submits no probe.
C8_ValidationDispatchesNothing ==
    /\ (pc # "idle" /\ facility_ids = <<>>) =>
          /\ pc = "done"
          /\ task = <<>>
          /\ emails = <<>>
          /\ app = "batch" => rendered = <<>>
          /\ app = "dashboard" =>
                rendered = << Out("markdown", "\n\n"),
                              Out("warning", "Please select at least one facility.") >>
    /\ (app = "dashboard" /\ facility_ids # <<>> /\ target_dates = <<>>) =>
          /\ pc = "done"
          /\ task = <<>>
          /\ Len(rendered) = 2
          /\ rendered[2].call = "markdown"
          /\ rendered[2].text # ""

C8_Witness ==
    /\ app = "dashboard"
    /\ pc = "done"
    /\ facility_ids # <<>>
    /\ target_dates = <<>>
    /\ Len(rendered) = 2

\* C9: for a non-empty id list, build_url_for_date returns a link that
\* holds the date, both times with ":00" inside the encoded
\* eventDateAndTime parameter, and the ids joined by commas as its
\* facilityCenterIds parameter.
C9_LinkBuilt ==
    \A i \in DOMAIN task :
        (/\ facility_ids # <<>>
         /\ task[i].state # "queued"
         /\ ~(app = "dashboard" /\ task[i].driver = "none")) =>
            LET url == task[i].url
                enc(key, value) == quote("\"" \o key \o "\": \"" \o value \o "\"")
            IN  /\ Contains(url, task[i].date)
                /\ Contains(url, "&eventDateAndTime=%7B")
                /\ Contains(url, enc("startTime", strftime(start_time) \o ":00"))
                /\ Contains(url, enc("endTime", strftime(end_time) \o ":00"))
                /\ EndsWith(url, "&facilityCenterIds="
                                 \o Join([k \in 1..Len(facility_ids) |->
                                            facility_ids[k].text], ","))

\* C10: after a completed dashboard check the page ends with one line per
\* available date in ascending date order, followed by "No ice times were
\* found ..." when no date is available, by "No availability on other
\* dates/times." when some but not all are, and by nothing when all are.
C10_SummaryLine ==
    (app = "dashboard" /\ pc = "done" /\ task # <<>>) =>
        LET shown == SubSeq(rendered, 6, Len(rendered))
            IsAvail(d) == \E i \in Available : task[i].date = d
            \* target_dates is in window order, which is ascending by date
            dates == SelectSeq(target_dates, IsAvail)
            n     == Len(dates)
        IN  /\ Len(shown) >= n
            /\ \A k \in 1..n :
                  /\ IsAvailableLine(shown[k])
                  /\ Contains(shown[k].text, "**" \o dates[k] \o "**")
            /\ n = 0 =>
                  shown = << Out("markdown",
                                 "No ice times were found for the selected dates.") >>
            /\ (0 < n /\ n < Len(task)) =>
                  /\ Len(shown) = n + 1
                  /\ shown[n + 1] = Out("markdown", "No availability on other dates/times.")
            /\ n = Len(task) => Len(shown) = n

C10_Witness ==
    /\ app = "dashboard"
    /\ pc = "done"
    /\ Len(task) >= 2
    /\ \E i \in DOMAIN task : task[i].status
    /\ \E i \in DOMAIN task : ~task[i].status
    /\ rendered[Len(rendered)] = Out("markdown", "No availability on other dates/times.")

---------------------------------------------------------------------------
(* The date filter against a calendar counted day by day.                  *)

DayNames ==
    <<"Monday", "Tuesday", "Wednesday", "Thursday", "Friday", "Saturday", "Sunday">>

\* the day after d, by the lengths of the months
RefNextDay(d) ==
    LET len == IF d.month = 2 /\ is_leap(d.year) THEN 29 ELSE DAYS_IN_MONTH[d.month]
    IN  IF d.day < len THEN [d EXCEPT !.day = d.day + 1]
        ELSE IF d.month < 12 THEN [d EXCEPT !.month = d.month + 1, !.day = 1]
        ELSE [year |-> d.year + 1, month |-> 1, day |-> 1]

RECURSIVE RefStep(_, _)
RefStep(d, k) == IF k = 0 THEN d ELSE RefStep(RefNextDay(d), k - 1)

\* how many days after a day of FirstDays (all Saturdays) d lies
RefOffset(d) ==
    CHOOSE k \in 0..MaxStartOffset : \E f \in FirstDays : RefStep(f, k) = d

\* the name of the day j days after today
RefDayName(j) == DayNames[((5 + RefOffset(today) + j) % 7) + 1]

\* C1, C2 and C5 as above, for directories whose ExtIDs are strings only (so
\* that build_url_for_date of the dashboard does not raise): each is still
\* violated, by a page load that fails.
StrIds == \A i \in 1..Len(directory) : directory[i].ExtID.kind = "str"

ProbesFailClosed_StrIds == StrIds => C1_ProbesFailClosed

OneResultPerDate_StrIds == StrIds => C2_OneResultPerDate

DriversQuit_StrIds == StrIds => C5_DriversQuit

\* C6: the Weekdays filter yields exactly the dates of the window that fall
\* Monday-Friday, the Weekends filter exactly those that fall
\* Saturday-Sunday, any other filter every date; a 16-day window that
\* starts on a Saturday has 10 dates under Weekdays.
C6_DateFilter ==
    pc = "dates" =>
        LET Keep(j) ==
                IF day_filter = "Weekdays"
                THEN RefDayName(j) \in {"Monday", "Tuesday", "Wednesday", "Thursday", "Friday"}
                ELSE IF day_filter = "Weekends"
                THEN RefDayName(j) \in {"Saturday", "Sunday"}
                ELSE TRUE
            length   == IF app = "batch" THEN 16 ELSE num_days
            window   == [j \in 1..length |-> j - 1]
            kept     == SelectSeq(window, Keep)
            expected == [k \in 1..Len(kept) |-> isoformat(RefStep(today, kept[k]))]
        IN  /\ target_dates = expected
            /\ (length = 16 /\ RefDayName(0) = "Saturday" /\ day_filter = "Weekdays")
                  => Len(target_dates) = 10

C6_Witness ==
    /\ pc = "dates"
    /\ app = "batch"
    /\ today = Date(2025, 12, 27)
    /\ day_filter = "Weekdays"
    /\ Len(target_dates) = 10

===========================================================================
